---------------------------- MODULE Spec2Model ----------------------------
(***************************************************************************)
(* The send_email tool of the Resend Email MCP server (src/main.py).       *)
(*                                                                         *)
(* An invocation of send_email runs without suspension from its entry to   *)
(* the outbound POST (there is no await before client.post), so it is one  *)
(* step, SendEmail; the provider's answer, or the transport's failure,     *)
(* resumes it, and the rest of the handler is the second step,             *)
(* HandleResponse.  Arguments are the ones the handler receives, after the *)
(* framework has checked their declared types.                             *)
(*                                                                         *)
(* Python values are tagged records, so that None, "" and [] stay distinct *)
(* values; header names are sequences of characters, so that lower-casing  *)
(* is computed; an error message is the sequence of the pieces its         *)
(* f-string concatenates.                                                  *)
(***************************************************************************)
EXTENDS Integers, Sequences, FiniteSets, TLC

\* Number of invocations the transport serves concurrently.
NumInvocations == 2

\* "List of recipient email addresses (max 50)".
MaxRecipients == 50

Procs == 1..NumInvocations

---------------------------------------------------------------------------
\* Python values and truthiness

PyNone == [t |-> "none"]

PyStr(s) == [t |-> "str", s |-> s]

PyList(q) == [t |-> "list", l |-> q]

PyDicts(q) == [t |-> "dicts", d |-> q]

\* The test of `if v:` and of the operands of `or` and `not`.
Truthy(v) ==
    CASE v.t = "none" -> FALSE
      [] v.t = "str" -> v.s # ""
      [] v.t = "list" -> Len(v.l) > 0
      [] v.t = "dicts" -> Len(v.d) > 0

\* a or b
PyOr(a, b) == IF Truthy(a) THEN a ELSE b

---------------------------------------------------------------------------
\* Header names

\* The upper-case letters and their lower-case forms.
LowerTable ==
    ("A" :> "a") @@ ("B" :> "b") @@ ("C" :> "c") @@ ("D" :> "d") @@ ("E" :> "e") @@
    ("F" :> "f") @@ ("G" :> "g") @@ ("H" :> "h") @@ ("I" :> "i") @@ ("J" :> "j") @@
    ("K" :> "k") @@ ("L" :> "l") @@ ("M" :> "m") @@ ("N" :> "n") @@ ("O" :> "o") @@
    ("P" :> "p") @@ ("Q" :> "q") @@ ("R" :> "r") @@ ("S" :> "s") @@ ("T" :> "t") @@
    ("U" :> "u") @@ ("V" :> "v") @@ ("W" :> "w") @@ ("X" :> "x") @@ ("Y" :> "y") @@
    ("Z" :> "z")

\* One character of name.lower(): a letter is lower-cased, anything else kept.
LowerChar(c) == IF c \in DOMAIN LowerTable THEN LowerTable[c] ELSE c

\* name.lower()
Lower(name) == [k \in 1..Len(name) |-> LowerChar(name[k])]

\* The three literals the handler looks the credential up under.
ApiKeyLower == <<"x","-","r","e","s","e","n","d","-","a","p","i","-","k","e","y">>

ApiKeyUpper == <<"X","-","R","E","S","E","N","D","-","A","P","I","-","K","E","Y">>

ApiKeyTitle == <<"X","-","R","e","s","e","n","d","-","A","p","i","-","K","e","y">>

\* The three literals the handler looks the sender up under.
SenderLower == <<"x","-","s","e","n","d","e","r","-","e","m","a","i","l">>

SenderUpper == <<"X","-","S","E","N","D","E","R","-","E","M","A","I","L">>

SenderTitle == <<"X","-","S","e","n","d","e","r","-","E","m","a","i","l">>

\* Casings a client may send that are none of the three literals.
ApiKeyMixed == <<"X","-","R","e","s","e","n","d","-","A","P","I","-","K","e","y">>

SenderMixed == <<"x","-","S","e","n","d","e","r","-","e","M","a","i","l">>

\* The other credential header name of the interface description; the
\* handler never looks it up.
AltKeyLower == <<"x","-","a","p","i","-","k","e","y">>

AltKeyUpper == <<"X","-","A","P","I","-","K","E","Y">>

---------------------------------------------------------------------------
\* Header extraction

\* get_http_headers(): the request's header fields as a dict keyed by the
\* lower-cased field name.  raw is the set of <<name, value>> fields of the
\* request, with at most one field per name up to case.
GetHttpHeaders(raw) ==
    [n \in {Lower(f[1]) : f \in raw} |->
        CHOOSE v \in {f[2] : f \in raw} :
            \E f \in raw : Lower(f[1]) = n /\ f[2] = v]

\* headers.get(name)
DictGet(headers, name) ==
    IF name \in DOMAIN headers THEN PyStr(headers[name]) ELSE PyNone

ApiKeyFromMisnamed(headers) ==
    PyOr(PyOr(DictGet(headers, AltKeyLower), DictGet(headers, AltKeyUpper)),
         DictGet(headers, ApiKeyTitle))

\* api_key = headers.get(..) or headers.get(..) or headers.get(..)
ApiKeyFrom(headers) ==
    PyOr(PyOr(DictGet(headers, ApiKeyLower), DictGet(headers, ApiKeyUpper)),
         DictGet(headers, ApiKeyTitle))

\* sender_email = headers.get(..) or headers.get(..) or headers.get(..)
SenderFrom(headers) ==
    PyOr(PyOr(DictGet(headers, SenderLower), DictGet(headers, SenderUpper)),
         DictGet(headers, SenderTitle))

---------------------------------------------------------------------------
\* Outcomes of an invocation

NoOutcome == [kind |-> "none"]

Returned(v) == [kind |-> "return", value |-> v]

Raised(exc, message) == [kind |-> "raise", exc |-> exc, message |-> message]

MissingApiKeyError ==
    Raised("ValueError",
           <<"Missing X-RESEND-API-KEY header. Please provide your Resend API key.">>)

MissingSenderError ==
    Raised("ValueError",
           <<"Missing X-SENDER-EMAIL header. Please provide sender email address.">>)

NoContentError ==
    Raised("ValueError",
           <<"At least one of html_content or text_content must be provided.">>)

---------------------------------------------------------------------------
\* The handler's checks

SenderNeverMissing(sender_email) == FALSE

\* if not api_key
MissingApiKey(api_key) == ~Truthy(api_key)

\* if not sender_email
MissingSender(sender_email) == ~Truthy(sender_email)

NoContentOnlyIfNone(a) == a.html_content = PyNone /\ a.text_content = PyNone

\* if not html_content and not text_content
NoContent(a) == ~Truthy(a.html_content) /\ ~Truthy(a.text_content)

---------------------------------------------------------------------------
\* The outbound request

\* payload[k] = v
Put(payload, k, v) ==
    [x \in DOMAIN payload \cup {k} |-> IF x = k THEN v ELSE payload[x]]

\* if v: payload[k] = v
PutIf(payload, k, v) == IF Truthy(v) THEN Put(payload, k, v) ELSE payload

PutIfNotNone(payload, k, v) == IF v # PyNone THEN Put(payload, k, v) ELSE payload

BuildPayloadNotNone(sender_email, a) ==
    LET p0 == [k \in {"from", "to", "subject"} |->
                  CASE k = "from" -> sender_email
                    [] k = "to" -> PyList(a.to_emails)
                    [] k = "subject" -> PyStr(a.subject)]
        p1 == PutIf(p0, "html", a.html_content)
        p2 == PutIf(p1, "text", a.text_content)
        p3 == PutIfNotNone(p2, "cc", a.cc_emails)
        p4 == PutIfNotNone(p3, "bcc", a.bcc_emails)
        p5 == PutIfNotNone(p4, "reply_to", a.reply_to)
        p6 == PutIfNotNone(p5, "scheduled_at", a.scheduled_at)
        p7 == PutIfNotNone(p6, "attachments", a.attachments)
    IN  PutIfNotNone(p7, "tags", a.tags)

\* payload = {"from": .., "to": .., "subject": ..} and the eight conditional keys
BuildPayload(sender_email, a) ==
    LET p0 == [k \in {"from", "to", "subject"} |->
                  CASE k = "from" -> sender_email
                    [] k = "to" -> PyList(a.to_emails)
                    [] k = "subject" -> PyStr(a.subject)]
        p1 == PutIf(p0, "html", a.html_content)
        p2 == PutIf(p1, "text", a.text_content)
        p3 == PutIf(p2, "cc", a.cc_emails)
        p4 == PutIf(p3, "bcc", a.bcc_emails)
        p5 == PutIf(p4, "reply_to", a.reply_to)
        p6 == PutIf(p5, "scheduled_at", a.scheduled_at)
        p7 == PutIf(p6, "attachments", a.attachments)
    IN  PutIf(p7, "tags", a.tags)

Url == "https://api.resend.com/emails"

\* request_headers = {"Content-Type": .., "Authorization": f"Bearer {api_key}"}
RequestHeaders(api_key) ==
    [ContentType |-> "application/json", Authorization |-> <<"Bearer ", api_key.s>>]

NoRequest == [method |-> "none"]

PostRequest(api_key, sender_email, a) ==
    [method |-> "POST", url |-> Url, headers |-> RequestHeaders(api_key),
     json |-> BuildPayload(sender_email, a)]

---------------------------------------------------------------------------
\* The provider's answer

NoResponse == [kind |-> "none"]

HttpResponse(status, body) == [kind |-> "http", status |-> status, body |-> body]

TransportFailure(exc) == [kind |-> "transport", exc |-> exc]

\* A body is its raw text and what response.json() makes of it.
JsonObject(o) == [t |-> "object", o |-> o]

JsonArray == [t |-> "array"]

JsonNull == [t |-> "null"]

JsonInvalid == [t |-> "invalid"]

Body(text, json) == [text |-> text, json |-> json]

RaisesUnless200(status) == status # 200

\* response.raise_for_status(): HTTPStatusError unless the status is 2xx
RaisesForStatus(status) == ~(200 <= status /\ status < 300)

ErrorMessageOrText(body) ==
    IF body.json.t = "object" /\ "message" \in DOMAIN body.json.o
    THEN body.json.o.message
    ELSE body.text

\* error_details = e.response.json(); error_details.get("message", "Unknown
\* error"); except: e.response.text
ErrorMessage(body) ==
    IF body.json.t = "object"
    THEN IF "message" \in DOMAIN body.json.o
         THEN body.json.o.message
         ELSE "Unknown error"
    ELSE body.text

OnlyUnauthorized(status) == status = 401

\* e.response.status_code in [401, 403]
IsAuthStatus(status) == status \in {401, 403}

\* What the invocation ends with, given what the POST came back with.
Completion(r) ==
    IF r.kind = "transport" THEN Raised(r.exc, <<>>)
    ELSE IF RaisesForStatus(r.status)
    THEN IF IsAuthStatus(r.status)
         THEN Raised("ValueError",
                     <<"Authentication failed: ", ErrorMessage(r.body),
                       ". Please check your API key and sender domain verification.">>)
         ELSE Raised("ValueError", <<"Resend API error: ", ErrorMessage(r.body)>>)
    ELSE IF r.body.json.t = "invalid" THEN Raised("JSONDecodeError", <<>>)
    ELSE IF r.body.json.t # "object" THEN Raised("AttributeError", <<>>)
    ELSE Returned(r.body.json)

---------------------------------------------------------------------------
\* State

VARIABLES
    pc,            \* per invocation: "idle", "awaiting" (suspended at the POST), "done"
    rawHeaders,    \* per invocation: the header fields of the inbound request
    args,          \* per invocation: the tool arguments
    api_key,       \* per invocation: local api_key
    sender_email,  \* per invocation: local sender_email
    request,       \* per invocation: the POST handed to the HTTP client
    posts,         \* per invocation: number of POSTs issued
    response,      \* per invocation: what the POST came back with
    outcome        \* per invocation: what the caller gets

vars == <<pc, rawHeaders, args, api_key, sender_email, request, posts, response, outcome>>

NoArgs == [none |-> TRUE]

Init ==
    /\ pc = [i \in Procs |-> "idle"]
    /\ rawHeaders = [i \in Procs |-> {}]
    /\ args = [i \in Procs |-> NoArgs]
    /\ api_key = [i \in Procs |-> PyNone]
    /\ sender_email = [i \in Procs |-> PyNone]
    /\ request = [i \in Procs |-> NoRequest]
    /\ posts = [i \in Procs |-> 0]
    /\ response = [i \in Procs |-> NoResponse]
    /\ outcome = [i \in Procs |-> NoOutcome]

\* raise e
Raise(i, e) ==
    /\ pc' = [pc EXCEPT ![i] = "done"]
    /\ outcome' = [outcome EXCEPT ![i] = e]
    /\ UNCHANGED <<request, posts>>

PostShared(i, k, s, a) ==
    LET others == {j \in Procs : j # i /\ Truthy(api_key[j])}
        key == IF others = {} THEN k
               ELSE api_key[CHOOSE j \in others : \A m \in others : j <= m]
    IN  /\ pc' = [pc EXCEPT ![i] = "awaiting"]
        /\ request' = [request EXCEPT ![i] = PostRequest(key, s, a)]
        /\ posts' = [posts EXCEPT ![i] = @ + 1]
        /\ UNCHANGED outcome

\* _send_email_via_resend up to its await: the payload, the headers, the POST
Post(i, k, s, a) ==
    /\ pc' = [pc EXCEPT ![i] = "awaiting"]
    /\ request' = [request EXCEPT ![i] = PostRequest(k, s, a)]
    /\ posts' = [posts EXCEPT ![i] = @ + 1]
    /\ UNCHANGED outcome

\* send_email, from its entry to the POST or to the error it raises
SendEmail(i, raw, a) ==
    /\ pc[i] = "idle"
    /\ LET headers == GetHttpHeaders(raw)
           k == ApiKeyFrom(headers)
           s == SenderFrom(headers)
       IN  /\ rawHeaders' = [rawHeaders EXCEPT ![i] = raw]
           /\ args' = [args EXCEPT ![i] = a]
           /\ api_key' = [api_key EXCEPT ![i] = k]
           /\ sender_email' = [sender_email EXCEPT ![i] = s]
           /\ IF MissingApiKey(k) THEN Raise(i, MissingApiKeyError)
              ELSE IF MissingSender(s) THEN Raise(i, MissingSenderError)
              ELSE IF NoContent(a) THEN Raise(i, NoContentError)
              ELSE Post(i, k, s, a)
    /\ UNCHANGED response

HandleResponseRetrying(i, r) ==
    /\ pc[i] = "awaiting"
    /\ response' = [response EXCEPT ![i] = r]
    /\ IF Completion(r).kind = "raise" /\ posts[i] < 2
       THEN /\ posts' = [posts EXCEPT ![i] = @ + 1]
            /\ UNCHANGED <<pc, outcome>>
       ELSE /\ pc' = [pc EXCEPT ![i] = "done"]
            /\ outcome' = [outcome EXCEPT ![i] = Completion(r)]
            /\ UNCHANGED posts
    /\ UNCHANGED <<rawHeaders, args, api_key, sender_email, request>>

\* _send_email_via_resend from the POST's completion to its return or raise,
\* which send_email passes on as it is
HandleResponse(i, r) ==
    /\ pc[i] = "awaiting"
    /\ response' = [response EXCEPT ![i] = r]
    /\ pc' = [pc EXCEPT ![i] = "done"]
    /\ outcome' = [outcome EXCEPT ![i] = Completion(r)]
    /\ UNCHANGED <<rawHeaders, args, api_key, sender_email, request, posts>>

---------------------------------------------------------------------------
\* Inputs

Args(to, subject, html, text, cc, bcc, reply_to, scheduled_at, attachments, tags) ==
    [to_emails |-> to, subject |-> subject, html_content |-> html,
     text_content |-> text, cc_emails |-> cc, bcc_emails |-> bcc,
     reply_to |-> reply_to, scheduled_at |-> scheduled_at,
     attachments |-> attachments, tags |-> tags]

\* A recipient list of n addresses.
Recipients(n) == [k \in 1..n |-> "a@x.com"]

HtmlValues == {PyNone, PyStr(""), PyStr("<p>hello</p>")}

TextValues == {PyNone, PyStr(""), PyStr("hello")}

AddressLists == {PyNone, PyList(<<>>), PyList(<<"c@x.com">>)}

ReplyToValues ==
    {PyNone, PyStr(""), PyList(<<>>), PyStr("r@x.com"), PyList(<<"r@x.com">>)}

ScheduleValues == {PyNone, PyStr(""), PyStr("in 1 hour")}

AttachmentValues ==
    {PyNone, PyDicts(<<>>), PyDicts(<<[content |-> "aGVsbG8=", filename |-> "a.txt"]>>)}

TagValues ==
    {PyNone, PyDicts(<<>>), PyDicts(<<[name |-> "category", value |-> "inquiry"]>>)}

\* The bodies and every recipient count of interest, no other optional argument.
ArgsCore ==
    {Args(Recipients(n), "Hi", h, t, PyNone, PyNone, PyNone, PyNone, PyNone, PyNone) :
        n \in {0, 1, MaxRecipients, MaxRecipients + 1}, h \in HtmlValues, t \in TextValues}

\* Every optional argument absent, empty or given.
ArgsFull ==
    {Args(Recipients(n), "Hi", h, t, cc, bcc, rt, PyNone, PyNone, PyNone) :
        n \in {1, 2}, h \in HtmlValues, t \in TextValues, cc \in AddressLists,
        bcc \in AddressLists, rt \in ReplyToValues}
    \cup
    {Args(Recipients(1), "Hi", h, t, cc, PyNone, PyNone, sc, at, tg) :
        h \in HtmlValues, t \in TextValues, cc \in AddressLists,
        sc \in ScheduleValues, at \in AttachmentValues, tg \in TagValues}

ArgsConc ==
    {Args(Recipients(1), "Hi", PyNone, PyStr("hello"), PyNone, PyNone, PyNone, PyNone,
          PyNone, PyNone),
     Args(Recipients(2), "Re", PyStr("<p>hello</p>"), PyNone, PyList(<<"c@x.com">>),
          PyNone, PyNone, PyNone, PyNone, PyNone),
     Args(Recipients(1), "Hi", PyNone, PyNone, PyNone, PyNone, PyNone, PyNone, PyNone,
          PyNone)}

KeyFields ==
    {{}} \cup {{<<n, v>>} : n \in {ApiKeyLower, ApiKeyUpper, ApiKeyTitle, ApiKeyMixed},
                           v \in {"", "re_123"}}

AltKeyFields == {{}} \cup {{<<n, "re_alt">>} : n \in {AltKeyLower, AltKeyUpper}}

SenderFields ==
    {{}} \cup {{<<n, v>>} : n \in {SenderLower, SenderUpper, SenderTitle, SenderMixed},
                           v \in {"", "me@x.com"}}

\* The header fields of a request: each of the three names absent or present
\* once, in some casing, with an empty or a non-empty value.
RawHeaderSpace == {k \cup alt \cup s : k \in KeyFields, alt \in AltKeyFields, s \in SenderFields}

RawHeadersValid == {{<<ApiKeyUpper, "re_123">>, <<SenderTitle, "me@x.com">>}}

RawHeadersConc ==
    {{<<ApiKeyLower, "re_A">>, <<SenderLower, "a@x.com">>},
     {<<ApiKeyUpper, "re_B">>, <<SenderUpper, "b@x.com">>},
     {<<SenderLower, "a@x.com">>}}

Statuses == {200, 201, 204, 302, 400, 401, 403, 404, 422, 429, 500, 503}

IdBody == Body("{\"id\": \"abc123\"}", JsonObject([id |-> "abc123"]))

InvalidKeyBody == Body("{\"message\": \"invalid key\"}", JsonObject([message |-> "invalid key"]))

Bodies ==
    {IdBody, InvalidKeyBody,
     Body("{\"statusCode\": \"422\", \"name\": \"validation_error\", \"message\": \"Missing to field\"}",
          JsonObject([statusCode |-> "422", name |-> "validation_error",
                      message |-> "Missing to field"])),
     Body("{\"name\": \"validation_error\"}", JsonObject([name |-> "validation_error"])),
     Body("{}", JsonObject([x \in {} |-> ""])),
     Body("[]", JsonArray),
     Body("null", JsonNull),
     Body("Bad Gateway", JsonInvalid),
     Body("", JsonInvalid)}

TransportFailures == {TransportFailure("ReadTimeout"), TransportFailure("ConnectError")}

Responses == {HttpResponse(st, b) : st \in Statuses, b \in Bodies} \cup TransportFailures

ResponsesFew == {HttpResponse(200, IdBody), TransportFailure("ReadTimeout")}

ResponsesConc ==
    {HttpResponse(200, IdBody),
     HttpResponse(200, Body("{\"id\": \"def456\"}", JsonObject([id |-> "def456"]))),
     HttpResponse(401, InvalidKeyBody),
     HttpResponse(500, Body("Bad Gateway", JsonInvalid)),
     TransportFailure("ReadTimeout")}

---------------------------------------------------------------------------
\* Specifications

\* One invocation, every header combination, every body and recipient count.
Next ==
    \/ \E raw \in RawHeaderSpace, a \in ArgsCore : SendEmail(1, raw, a)
    \/ \E r \in ResponsesFew : HandleResponse(1, r)

Spec == Init /\ [][Next]_vars

\* One invocation that reaches the POST, every provider answer.
NextProvider ==
    \/ \E raw \in RawHeadersValid, a \in ArgsConc : SendEmail(1, raw, a)
    \/ \E r \in Responses : HandleResponse(1, r)

SpecProvider == Init /\ [][NextProvider]_vars

\* One invocation with valid headers, every combination of optional arguments.
NextPayload ==
    \/ \E raw \in RawHeadersValid, a \in ArgsFull : SendEmail(1, raw, a)
    \/ \E r \in ResponsesFew : HandleResponse(1, r)

SpecPayload == Init /\ [][NextPayload]_vars

\* NumInvocations invocations, interleaved at their suspension points.
NextConc ==
    \E i \in Procs :
        \/ \E raw \in RawHeadersConc, a \in ArgsConc : SendEmail(i, raw, a)
        \/ \E r \in ResponsesConc : HandleResponse(i, r)

SpecConc == Init /\ [][NextConc]_vars

---------------------------------------------------------------------------
\* Vocabulary of the properties, stated on what went in and what came out

Started(i) == pc[i] # "idle"

Done(i) == pc[i] = "done"

\* The values of the request's fields named `name`, whatever their casing.
FieldValues(raw, name) == {f[2] : f \in {g \in raw : Lower(g[1]) = name}}

\* The request carries a non-empty value under `name`, in some casing.
Supplies(raw, name) == \E v \in FieldValues(raw, name) : v # ""

TheValue(raw, name) == CHOOSE v \in FieldValues(raw, name) : v # ""

Absent(v) == v \in {PyNone, PyStr(""), PyList(<<>>), PyDicts(<<>>)}

BothBodiesAbsent(a) == Absent(a.html_content) /\ Absent(a.text_content)

MissingHeaderErrors == {MissingApiKeyError, MissingSenderError}

Non2xx(status) == status < 200 \/ status > 299

FailedResponse(r) == r.kind = "transport" \/ (r.kind = "http" /\ Non2xx(r.status))

HasMessage(body) == body.json.t = "object" /\ "message" \in DOMAIN body.json.o

Includes(message, piece) == \E k \in DOMAIN message : message[k] = piece

OptionalKeys ==
    {"html", "text", "cc", "bcc", "reply_to", "scheduled_at", "attachments", "tags"}

ArgumentOf(a, key) ==
    CASE key = "html" -> a.html_content
      [] key = "text" -> a.text_content
      [] key = "cc" -> a.cc_emails
      [] key = "bcc" -> a.bcc_emails
      [] key = "reply_to" -> a.reply_to
      [] key = "scheduled_at" -> a.scheduled_at
      [] key = "attachments" -> a.attachments
      [] key = "tags" -> a.tags

ExampleArgs ==
    Args(<<"a@x.com">>, "Hi", PyNone, PyStr("hello"), PyNone, PyNone, PyNone, PyNone,
         PyNone, PyNone)

\* Payload p is the one the request with header fields raw and arguments a calls for.
PayloadFits(p, raw, a) ==
    /\ {"from", "to", "subject"} \subseteq DOMAIN p
    /\ DOMAIN p \subseteq {"from", "to", "subject"} \cup OptionalKeys
    /\ p["from"] = PyStr(TheValue(raw, SenderLower))
    /\ p["to"] = PyList(a.to_emails)
    /\ p["subject"] = PyStr(a.subject)
    /\ \A key \in OptionalKeys :
          /\ key \in DOMAIN p <=> ~Absent(ArgumentOf(a, key))
          /\ key \in DOMAIN p => p[key] = ArgumentOf(a, key)

---------------------------------------------------------------------------
\* C1

\* C1 as stated: an invocation with neither html_content nor text_content
\* fails with the validation error and issues no POST.
C1_NoBodyIsValidationError ==
    \A i \in Procs :
        Started(i) /\ BothBodiesAbsent(args[i]) =>
            /\ Done(i)
            /\ outcome[i] = NoContentError
            /\ posts[i] = 0

\* C1, amended: an invocation with neither html_content nor text_content
\* fails and issues no POST; the failure is the validation error when the
\* credential and sender headers are both supplied, and the missing-header
\* error, which is raised first, when one of them is not.
C1_NoBodyFailsBeforePost ==
    \A i \in Procs :
        Started(i) /\ BothBodiesAbsent(args[i]) =>
            /\ Done(i)
            /\ posts[i] = 0
            /\ request[i] = NoRequest
            /\ response[i] = NoResponse
            /\ IF Supplies(rawHeaders[i], ApiKeyLower) /\ Supplies(rawHeaders[i], SenderLower)
               THEN outcome[i] = NoContentError
               ELSE outcome[i] \in MissingHeaderErrors

C1_Witness ==
    \E i \in Procs :
        /\ Done(i)
        /\ args[i].html_content = PyStr("")
        /\ args[i].text_content = PyNone
        /\ outcome[i] = NoContentError
        /\ posts[i] = 0

---------------------------------------------------------------------------
\* C2

\* C2: an invocation whose credential header or sender header is missing or
\* empty fails with the missing-header error and issues no POST, whatever
\* its arguments.
C2_MissingHeaderIsAuthError ==
    \A i \in Procs :
        Started(i) =>
            /\ ~Supplies(rawHeaders[i], ApiKeyLower) =>
                  Done(i) /\ outcome[i] = MissingApiKeyError /\ posts[i] = 0
                  /\ request[i] = NoRequest
            /\ ~Supplies(rawHeaders[i], SenderLower) =>
                  Done(i) /\ outcome[i] \in MissingHeaderErrors /\ posts[i] = 0
                  /\ request[i] = NoRequest

C2_Witness ==
    \E i \in Procs :
        /\ Done(i)
        /\ Supplies(rawHeaders[i], ApiKeyLower)
        /\ FieldValues(rawHeaders[i], SenderLower) = {""}
        /\ ~BothBodiesAbsent(args[i])
        /\ outcome[i] = MissingSenderError
        /\ posts[i] = 0

---------------------------------------------------------------------------
\* C3

\* C3: the payload of every POST has from, to and subject, and has each of
\* html, text, cc, bcc, reply_to, scheduled_at, attachments and tags exactly
\* when the argument was supplied (not absent, null or empty), with the
\* argument's value; the example arguments give exactly from, to, subject, text.
C3_PayloadHasOnlySuppliedKeys ==
    \A i \in Procs :
        request[i] # NoRequest =>
            /\ PayloadFits(request[i].json, rawHeaders[i], args[i])
            /\ args[i] = ExampleArgs =>
                  request[i].json =
                      [k \in {"from", "to", "subject", "text"} |->
                          CASE k = "from" -> PyStr(TheValue(rawHeaders[i], SenderLower))
                            [] k = "to" -> PyList(<<"a@x.com">>)
                            [] k = "subject" -> PyStr("Hi")
                            [] k = "text" -> PyStr("hello")]

C3_Witness ==
    \E i \in Procs :
        /\ request[i] # NoRequest
        /\ args[i].cc_emails = PyList(<<>>)
        /\ args[i].reply_to = PyStr("")
        /\ args[i].bcc_emails = PyList(<<"c@x.com">>)
        /\ "cc" \notin DOMAIN request[i].json
        /\ "reply_to" \notin DOMAIN request[i].json
        /\ "bcc" \in DOMAIN request[i].json

---------------------------------------------------------------------------
\* C4

\* C4 as stated: after a 2xx response with a JSON body, the caller gets the
\* parsed body.
C4_JsonBodyReturned ==
    \A i \in Procs :
        /\ Done(i)
        /\ response[i].kind = "http"
        /\ ~Non2xx(response[i].status)
        /\ response[i].body.json.t # "invalid"
        => outcome[i] = Returned(response[i].body.json)

\* C4, amended: after a 2xx response whose body is a JSON object, the caller
\* gets the parsed object, with the same members and values.
C4_JsonObjectReturnedUnchanged ==
    \A i \in Procs :
        /\ Done(i)
        /\ response[i].kind = "http"
        /\ ~Non2xx(response[i].status)
        /\ response[i].body.json.t = "object"
        => /\ outcome[i].kind = "return"
           /\ outcome[i].value.t = "object"
           /\ outcome[i].value.o = response[i].body.json.o

C4_Witness ==
    \E i \in Procs :
        /\ Done(i)
        /\ response[i] = HttpResponse(200, IdBody)
        /\ outcome[i].kind = "return"
        /\ outcome[i].value.o = [id |-> "abc123"]

---------------------------------------------------------------------------
\* C5

\* C5: after a 401 or 403 the invocation fails with the error labelled as an
\* authentication failure, whose message includes the provider's message;
\* after any other non-2xx status it fails with the provider error that is
\* not labelled so.
C5_AuthStatusLabelled ==
    \A i \in Procs :
        Done(i) /\ response[i].kind = "http" /\ Non2xx(response[i].status) =>
            /\ outcome[i].kind = "raise"
            /\ outcome[i].exc = "ValueError"
            /\ IF response[i].status \in {401, 403}
               THEN /\ outcome[i].message[1] = "Authentication failed: "
                    /\ HasMessage(response[i].body) =>
                          Includes(outcome[i].message, response[i].body.json.o.message)
               ELSE outcome[i].message[1] = "Resend API error: "

C5_Witness ==
    \E i \in Procs :
        /\ Done(i)
        /\ response[i] = HttpResponse(401, InvalidKeyBody)
        /\ outcome[i].message[1] = "Authentication failed: "
        /\ Includes(outcome[i].message, "invalid key")

---------------------------------------------------------------------------
\* C6

\* C6 as stated: after a non-2xx response the error carries the provider's
\* status and the provider's message, which is the one parsed from the JSON
\* body and, when none can be parsed, the raw response text.
C6_ErrorCarriesStatusAndMessage ==
    \A i \in Procs :
        Done(i) /\ response[i].kind = "http" /\ Non2xx(response[i].status) =>
            /\ outcome[i].kind = "raise"
            /\ Includes(outcome[i].message, ToString(response[i].status))
            /\ Includes(outcome[i].message,
                        IF HasMessage(response[i].body)
                        THEN response[i].body.json.o.message
                        ELSE response[i].body.text)

\* C6, amended: after a non-2xx response the error carries the provider's
\* message and, of the status, only the label of C5: the message is the
\* "message" member of the body when the body is a JSON object that has
\* one, "Unknown error" when it is a JSON object that has none, and the raw
\* response text when it is not a JSON object.
C6_ErrorCarriesMessage ==
    \A i \in Procs :
        Done(i) /\ response[i].kind = "http" /\ Non2xx(response[i].status) =>
            /\ outcome[i].kind = "raise"
            /\ outcome[i].exc = "ValueError"
            /\ Len(outcome[i].message) >= 2
            /\ outcome[i].message[2] =
                  (IF HasMessage(response[i].body) THEN response[i].body.json.o.message
                   ELSE IF response[i].body.json.t = "object" THEN "Unknown error"
                   ELSE response[i].body.text)
            /\ \A k \in DOMAIN outcome[i].message :
                  k # 2 => outcome[i].message[k] \in
                      {"Authentication failed: ", "Resend API error: ",
                       ". Please check your API key and sender domain verification."}

C6_Witness ==
    \E i \in Procs :
        /\ Done(i)
        /\ response[i].kind = "http"
        /\ response[i].status = 422
        /\ response[i].body.text = "{\"name\": \"validation_error\"}"
        /\ outcome[i].message = <<"Resend API error: ", "Unknown error">>

---------------------------------------------------------------------------
\* C7

\* C7: an invocation issues at most one POST; after a non-2xx response or a
\* transport failure it has issued exactly one, and it ends with that
\* failure raised to the caller.
C7_SingleAttempt ==
    \A i \in Procs :
        /\ posts[i] <= 1
        /\ response[i] # NoResponse /\ FailedResponse(response[i]) =>
              /\ posts[i] = 1
              /\ Done(i)
              /\ outcome[i].kind = "raise"
              /\ response[i].kind = "transport" => outcome[i].exc = response[i].exc
              /\ response[i].kind = "http" => outcome[i].exc = "ValueError"

C7_Witness ==
    \E i \in Procs :
        /\ Done(i)
        /\ response[i] = TransportFailure("ReadTimeout")
        /\ posts[i] = 1
        /\ outcome[i] = Raised("ReadTimeout", <<>>)

---------------------------------------------------------------------------
\* C8

\* C8 as stated: a credential supplied under x-api-key or x-resend-api-key
\* and a sender supplied under x-sender-email, in any casing, are extracted,
\* and the invocation does not fail with a missing-header error.
C8_EitherCredentialNameAccepted ==
    \A i \in Procs :
        /\ Started(i)
        /\ Supplies(rawHeaders[i], ApiKeyLower) \/ Supplies(rawHeaders[i], AltKeyLower)
        /\ Supplies(rawHeaders[i], SenderLower)
        => /\ Truthy(api_key[i])
           /\ Truthy(sender_email[i])
           /\ outcome[i] \notin MissingHeaderErrors

\* C8, amended: a credential supplied under x-resend-api-key and a sender
\* supplied under x-sender-email, in any casing, are extracted, and the
\* invocation does not fail with a missing-header error; a credential
\* supplied under x-api-key alone is not read, and the invocation fails
\* with the missing-credential error.
C8_ResendCredentialNameAccepted ==
    \A i \in Procs :
        Started(i) =>
            /\ Supplies(rawHeaders[i], ApiKeyLower) /\ Supplies(rawHeaders[i], SenderLower) =>
                  /\ api_key[i] = PyStr(TheValue(rawHeaders[i], ApiKeyLower))
                  /\ sender_email[i] = PyStr(TheValue(rawHeaders[i], SenderLower))
                  /\ outcome[i] \notin MissingHeaderErrors
            /\ ~Supplies(rawHeaders[i], ApiKeyLower) /\ Supplies(rawHeaders[i], AltKeyLower) =>
                  ~Truthy(api_key[i]) /\ outcome[i] = MissingApiKeyError

C8_Witness ==
    \E i \in Procs :
        /\ Started(i)
        /\ <<ApiKeyMixed, "re_123">> \in rawHeaders[i]
        /\ <<SenderMixed, "me@x.com">> \in rawHeaders[i]
        /\ api_key[i] = PyStr("re_123")
        /\ sender_email[i] = PyStr("me@x.com")
        /\ pc[i] = "awaiting"

---------------------------------------------------------------------------
\* C9

\* C9: an invocation whose recipient list is empty or holds more than
\* MaxRecipients addresses fails and issues no POST.
C9_MalformedRecipientsRejected ==
    \A i \in Procs :
        /\ Started(i)
        /\ Len(args[i].to_emails) = 0 \/ Len(args[i].to_emails) > MaxRecipients
        => /\ posts[i] = 0
           /\ Done(i)
           /\ outcome[i].kind = "raise"

---------------------------------------------------------------------------
\* C10

\* The outcome o is the one the answer r calls for.
OutcomeFits(o, r) ==
    IF r.kind = "transport" THEN o = Raised(r.exc, <<>>)
    ELSE IF Non2xx(r.status)
    THEN /\ o.kind = "raise"
         /\ o.message[1] = (IF r.status \in {401, 403} THEN "Authentication failed: "
                            ELSE "Resend API error: ")
         /\ o.message[2] = (IF HasMessage(r.body) THEN r.body.json.o.message
                            ELSE IF r.body.json.t = "object" THEN "Unknown error"
                            ELSE r.body.text)
    ELSE r.body.json.t = "object" => o = Returned(r.body.json)

\* C10: under every interleaving, an invocation's payload and Authorization
\* header are those of its own header fields and arguments, and its outcome
\* that of its own arguments, header fields and provider answer.
C10_InvocationsIndependent ==
    \A i \in Procs :
        /\ request[i] # NoRequest =>
              /\ request[i].headers.Authorization =
                    <<"Bearer ", TheValue(rawHeaders[i], ApiKeyLower)>>
              /\ PayloadFits(request[i].json, rawHeaders[i], args[i])
        /\ Done(i) /\ response[i] # NoResponse => OutcomeFits(outcome[i], response[i])
        /\ Done(i) /\ response[i] = NoResponse =>
              outcome[i] = (IF ~Supplies(rawHeaders[i], ApiKeyLower) THEN MissingApiKeyError
                            ELSE IF ~Supplies(rawHeaders[i], SenderLower) THEN MissingSenderError
                            ELSE NoContentError)
        /\ Started(i) /\ request[i] = NoRequest => Done(i) /\ response[i] = NoResponse

C10_Witness ==
    \E i \in Procs : \E j \in Procs :
        /\ pc[i] = "awaiting"
        /\ request[i].headers.Authorization = <<"Bearer ", "re_A">>
        /\ Done(j)
        /\ request[j] # NoRequest
        /\ request[j].headers.Authorization = <<"Bearer ", "re_B">>
        /\ request[j].json # request[i].json
        /\ outcome[j] = Raised("ValueError",
                               <<"Authentication failed: ", "invalid key",
                                 ". Please check your API key and sender domain verification.">>)

=============================================================================
